---- MODULE Spec2Model ----
(***************************************************************************)
(* Record store of the O&G operations prototype (src/app.py): seven CSV    *)
(* backed datasets, seeding, cached loading, atomic save, sequential ids,  *)
(* and the page handlers that create and transition records.               *)
(*                                                                         *)
(* A DataFrame is [cols, rows]; a cell is typed (int, float, text, bool).  *)
(* A CSV file is [st, cols, rows] whose cells are text.  Floats are kept   *)
(* in halves (n = 2 * value), which is exact for every number the program  *)
(* seeds or computes here.                                                 *)
(***************************************************************************)
EXTENDS Integers, Sequences, FiniteSets, TLC

\* ------------------------------------------------------------------ bounds
\* Largest integer literal the CSV reader is asked to recognise.
ParseMax == 90
\* Seconds the wall clock may advance.
MaxClock == 1
\* Rows of the id column in the inputs of next_sequential_id.
MaxLen == 3
\* Button presses of one exploration.
MaxRuns == 2
\* Calls of save_csv by one writer.
MaxSaves == 2

\* -------------------------------------------------------------- data files
F_USUARIOS == "usuarios.csv"
F_ACTIVOS == "activos.csv"
F_NOTIF == "notificaciones.csv"
F_RONDAS_PLT == "rondas_plantillas.csv"
F_RONDAS_RUN == "rondas_ejecuciones.csv"
F_INCIDENTES == "incidentes.csv"
F_PTWOT == "ptw_ot.csv"

Files ==
  {F_USUARIOS, F_ACTIVOS, F_NOTIF, F_RONDAS_PLT, F_RONDAS_RUN, F_INCIDENTES, F_PTWOT}

\* ------------------------------------------------------------------- cells
I(n) == [k |-> "i", n |-> n, s |-> ""]
S(s) == [k |-> "s", n |-> 0, s |-> s]
F(h) == [k |-> "f", n |-> h, s |-> ""]
FInf == [k |-> "f", n |-> 0, s |-> "inf"]
B(b) == [k |-> "b", n |-> IF b THEN 1 ELSE 0, s |-> ""]

\* repr of a float given in halves: 7 -> "3.5", 4 -> "2.0"
FloatText(h) == ToString(h \div 2) \o (IF h % 2 = 0 THEN ".0" ELSE ".5")

\* Text that pandas parses as int64: plain decimals and zero-padded ones.
PaddedInts == {"007"}
IntTexts == {ToString(n) : n \in 0..ParseMax} \cup PaddedInts
FloatTexts == {FloatText(h) : h \in 0..(2 * ParseMax + 1)}
InfTexts == {"inf"}
BoolTexts == {"True", "False"}

NumTexts == IntTexts \cup FloatTexts
FloatableTexts == NumTexts \cup InfTexts

\* int("007") = 7: the parsers as tables over the texts above.
IntTable ==
  [s \in IntTexts |->
     IF s \in PaddedInts THEN 7 ELSE CHOOSE n \in 0..ParseMax : ToString(n) = s]
HalvesTable ==
  [s \in NumTexts |->
     IF s \in IntTexts THEN 2 * IntTable[s]
     ELSE CHOOSE h \in 0..(2 * ParseMax + 1) : FloatText(h) = s]

TextToInt(s) == IntTable[s]
TextToHalves(s) == HalvesTable[s]

\* DataFrame.to_csv: the text of one cell.
CellText(c) ==
  CASE c.k = "i" -> ToString(c.n)
    [] c.k = "f" -> IF c.s = "inf" THEN "inf" ELSE FloatText(c.n)
    [] c.k = "b" -> IF c.n = 1 THEN "True" ELSE "False"
    [] OTHER -> c.s

\* ------------------------------------------------------- frames and files
EmptyDataFrame == [cols |-> <<>>, rows |-> <<>>]
Missing == [st |-> "missing", cols |-> <<>>, rows |-> <<>>]
Corrupt == [st |-> "corrupt", cols |-> <<>>, rows |-> <<>>]

Range(seq) == {seq[i] : i \in DOMAIN seq}
HasCol(df, c) == c \in Range(df.cols)
IsEmpty(df) == df.rows = <<>> \/ df.cols = <<>>

ToCsv(df) ==
  [st |-> "ok",
   cols |-> df.cols,
   rows |-> [i \in DOMAIN df.rows |->
               [c \in DOMAIN df.rows[i] |-> CellText(df.rows[i][c])]]]

\* pandas type inference of one column (keep_default_na=False, no dtype):
\* int64 if every cell is an integer literal, float64 if every cell is
\* numeric, bool if every cell is True/False, otherwise the text as it is.
ColKind(file, c) ==
  LET texts == {file.rows[i][c] : i \in DOMAIN file.rows}
  IN  CASE texts = {} -> "s"
        [] texts \subseteq IntTexts -> "i"
        [] texts \subseteq FloatableTexts -> "f"
        [] texts \subseteq BoolTexts -> "b"
        [] OTHER -> "s"

ParseAs(kind, s) ==
  CASE kind = "i" -> I(TextToInt(s))
    [] kind = "f" -> IF s \in InfTexts THEN FInf ELSE F(TextToHalves(s))
    [] kind = "b" -> B(s = "True")
    [] OTHER -> S(s)

ReadCsv(file) ==
  LET kinds == [c \in Range(file.cols) |-> ColKind(file, c)]
  IN  [cols |-> file.cols,
       rows |-> [i \in DOMAIN file.rows |->
                   [c \in DOMAIN file.rows[i] |-> ParseAs(kinds[c], file.rows[i][c])]]]

\* _safe_read_csv without its st.warning
safe_read_csv_silent(file) ==
  IF file.st = "ok" THEN [df |-> ReadCsv(file), warned |-> FALSE]
  ELSE [df |-> EmptyDataFrame, warned |-> FALSE]

\* _safe_read_csv: [df, warned]
SafeReadCsv(file) ==
  CASE file.st = "missing" -> [df |-> EmptyDataFrame, warned |-> FALSE]
    [] file.st = "corrupt" -> [df |-> EmptyDataFrame, warned |-> TRUE]
    [] OTHER -> [df |-> ReadCsv(file), warned |-> FALSE]

\* ------------------------------------------------------ next_sequential_id
\* pd.to_numeric(errors="coerce") of one cell: [nan, inf, h] with h in halves.
NaN == [nan |-> TRUE, inf |-> FALSE, h |-> 0]
Num(h) == [nan |-> FALSE, inf |-> FALSE, h |-> h]
Inf == [nan |-> FALSE, inf |-> TRUE, h |-> 0]

ToNumeric(c) ==
  CASE c.k = "i" -> Num(2 * c.n)
    [] c.k = "f" -> IF c.s = "inf" THEN Inf ELSE Num(c.n)
    [] c.k = "b" -> Num(2 * c.n)
    [] OTHER ->
         IF c.s \in NumTexts THEN Num(TextToHalves(c.s))
         ELSE IF c.s \in InfTexts THEN Inf
         ELSE NaN

\* Series.max(): NaN is skipped; NaN when nothing is left.
SeriesMax(vals) ==
  LET nums == {v \in vals : ~v.nan}
  IN  IF nums = {} THEN NaN
      ELSE IF \E v \in nums : v.inf THEN Inf
      ELSE CHOOSE v \in nums : \A u \in nums : u.h <= v.h

\* int(x): truncation toward zero of a value given in halves.
IntOfHalves(h) == IF h >= 0 THEN h \div 2 ELSE -((-h) \div 2)

IdSeries(df, id_col) == {ToNumeric(df.rows[i][id_col]) : i \in DOMAIN df.rows}

next_sequential_id_first(df, id_col) ==
  IF IsEmpty(df) \/ ~HasCol(df, id_col) THEN 1
  ELSE LET m == SeriesMax(IdSeries(df, id_col))
       IN  IF m.nan \/ m.inf THEN 1
           ELSE LET firstv == ToNumeric(df.rows[1][id_col])
                IN  IF firstv.nan \/ firstv.inf THEN 1
                    ELSE IntOfHalves(firstv.h) + 1

next_sequential_id(df, id_col) ==
  IF IsEmpty(df) \/ ~HasCol(df, id_col) THEN 1
  ELSE LET m == SeriesMax(IdSeries(df, id_col))
       IN  IF m.nan \/ m.inf THEN 1   \* int(nan), int(inf) raise: except -> 1
           ELSE IntOfHalves(m.h) + 1

\* ------------------------------------------------------------ now_iso, seed
\* now_iso(): the clock rendered as text, one text per second.
now_iso(t) == "2025-01-01 00:00:0" \o ToString(t)

NotifCols ==
  <<"id", "ts_creacion", "tag", "titulo", "motivo", "prioridad", "estado",
    "asignado_a", "ts_recibida", "ts_cerrada", "evidencia">>
RunCols == <<"id", "ts", "plantilla", "tag", "variable", "valor", "en_rango", "operario">>
IncCols ==
  <<"id", "ts", "tag", "titulo", "severidad", "descripcion", "reportado_por", "estado">>
PtwCols ==
  <<"id", "ts_solicitud", "tipo", "solicitante", "area", "estado", "aprob_hse",
    "ts_cierre", "adjuntos">>

SeedUsuarios ==
  [cols |-> <<"user_id", "nombre", "rol", "area">>,
   rows |-> <<
     [user_id |-> S("op1"), nombre |-> S("Operario 1"), rol |-> S("Operario"),
      area |-> S("Operacion Area B")],
     [user_id |-> S("op2"), nombre |-> S("Operario 2"), rol |-> S("Operario"),
      area |-> S("Operacion Area A")],
     [user_id |-> S("sup1"), nombre |-> S("Supervisor 1"), rol |-> S("Supervisor"),
      area |-> S("Sala Control")],
     [user_id |-> S("hse1"), nombre |-> S("HSE 1"), rol |-> S("HSE"), area |-> S("HSE")]>>]

SeedActivos ==
  [cols |-> <<"tag", "descripcion", "area">>,
   rows |-> <<
     [tag |-> S("V-210"), descripcion |-> S("Valvula de control linea de produccion"),
      area |-> S("Area B")],
     [tag |-> S("P-101"), descripcion |-> S("Bomba de transferencia"), area |-> S("Area A")],
     [tag |-> S("TK-1203"), descripcion |-> S("Tanque crudo estabilizado"),
      area |-> S("Tanques")],
     [tag |-> S("K-301"), descripcion |-> S("Compresor gas baja presion"),
      area |-> S("Compresion")]>>]

SeedNotif(t) ==
  [cols |-> NotifCols,
   rows |-> <<
     [id |-> I(1), ts_creacion |-> S(now_iso(t)), tag |-> S("V-210"),
      titulo |-> S("Chequear valvula V-210"), motivo |-> S("Sobrepresion"),
      prioridad |-> S("P1"), estado |-> S("Pendiente"), asignado_a |-> S("Operario 1"),
      ts_recibida |-> S(""), ts_cerrada |-> S(""), evidencia |-> S("")],
     [id |-> I(2), ts_creacion |-> S(now_iso(t)), tag |-> S("P-101"),
      titulo |-> S("Verificar sello mecanico"), motivo |-> S("Goteo observado"),
      prioridad |-> S("P2"), estado |-> S("Pendiente"), asignado_a |-> S("Operario 2"),
      ts_recibida |-> S(""), ts_cerrada |-> S(""), evidencia |-> S("")]>>]

SeedRondasPlt ==
  [cols |-> <<"plantilla", "tag", "variable", "lim_inf", "lim_sup">>,
   rows |-> <<
     [plantilla |-> S("Ronda Compresores"), tag |-> S("K-301"),
      variable |-> S("Presion succion [bar]"), lim_inf |-> F(4), lim_sup |-> F(10)],
     [plantilla |-> S("Ronda Compresores"), tag |-> S("K-301"),
      variable |-> S("Temperatura carcasa [C]"), lim_inf |-> F(40), lim_sup |-> F(160)],
     [plantilla |-> S("Ronda Tanques"), tag |-> S("TK-1203"),
      variable |-> S("Nivel [%]"), lim_inf |-> F(20), lim_sup |-> F(170)],
     [plantilla |-> S("Ronda Tanques"), tag |-> S("TK-1203"),
      variable |-> S("Temperatura [C]"), lim_inf |-> F(20), lim_sup |-> F(120)]>>]

SeedRondasRun == [cols |-> RunCols, rows |-> <<>>]

SeedIncidentes(t) ==
  [cols |-> IncCols,
   rows |-> <<
     [id |-> I(1), ts |-> S(now_iso(t)), tag |-> S("V-210"),
      titulo |-> S("Near Miss por sobrepresion"), severidad |-> S("Medio"),
      descripcion |-> S("Se detecta lectura por encima del umbral"),
      reportado_por |-> S("Operario 1"), estado |-> S("Abierto")]>>]

SeedPtw(t) ==
  [cols |-> PtwCols,
   rows |-> <<
     [id |-> I(1), ts_solicitud |-> S(now_iso(t)), tipo |-> S("Trabajo caliente"),
      solicitante |-> S("Supervisor 1"), area |-> S("Area B"), estado |-> S("Borrador"),
      aprob_hse |-> S("No"), ts_cierre |-> S(""), adjuntos |-> S("")]>>]

SeedFrame(f, t) ==
  CASE f = F_USUARIOS -> SeedUsuarios
    [] f = F_ACTIVOS -> SeedActivos
    [] f = F_NOTIF -> SeedNotif(t)
    [] f = F_RONDAS_PLT -> SeedRondasPlt
    [] f = F_RONDAS_RUN -> SeedRondasRun
    [] f = F_INCIDENTES -> SeedIncidentes(t)
    [] OTHER -> SeedPtw(t)

\* save_csv run to completion: the file at path holds the frame's CSV.
save_csv(d, df, path) == [d EXCEPT ![path] = ToCsv(df)]

seed_always(d, t) == [f \in Files |-> ToCsv(SeedFrame(f, t))]

\* seed_if_missing: Path.exists() is true of a corrupt file too.
seed_if_missing(d, t) ==
  [f \in Files |-> IF d[f].st = "missing" THEN save_csv(d, SeedFrame(f, t), f)[f] ELSE d[f]]

\* ------------------------------------------------------------------- state
VARIABLES
  clock,        \* wall clock, in seconds
  disk,         \* data/: file name -> CSV file (missing, corrupt or a table)
  cache,        \* st.cache_data of load_csv: file name -> entry
  notifs,       \* the script's frames as the last run left them
  rondas_run,
  incidentes,
  ptwot,
  usuarios,
  loaded,       \* the frame objects load_csv gave the last run, as the run left them
  msg,          \* what the last run reported to the user
  warned,       \* files the last run warned about (damaged, loaded empty)
  saved,        \* files the last run wrote with save_csv
  session_open, \* a page has been rendered: its buttons can be pressed
  widgets,      \* the button pressed in the last run and the widget values it read
  runs,         \* button presses so far
  fs_names,     \* save_csv step by step: path -> inode (0: no such file)
  fs_inodes,    \* ... inode -> the lines written to it
  writers,      \* ... each writer's place in save_csv, its handle and its frame
  nid_file,     \* next_sequential_id alone: the CSV its collection is read from
  nid_called,   \* ... whether it has been applied
  nid_out       \* ... its result

frames == <<notifs, rondas_run, incidentes, ptwot, usuarios>>
appVars == <<disk, cache, frames, loaded, msg, warned, saved, session_open, widgets, runs>>
nidVars == <<nid_file, nid_called, nid_out>>
fsVars == <<fs_names, fs_inodes, writers>>
vars == <<clock, appVars, nidVars, fsVars>>

\* ------------------------------------------- next_sequential_id on its own
IdTexts == {"2", "3", "7", "2.5", "abc", "", "inf"}

IdColumns == UNION {[1..n -> IdTexts] : n \in 0..MaxLen}

NidFiles ==
  {[st |-> "ok", cols |-> <<"id">>, rows |-> [i \in DOMAIN col |-> [id |-> col[i]]]]
     : col \in IdColumns}
  \cup {[st |-> "ok", cols |-> <<"tag">>, rows |-> <<[tag |-> "V-210"]>>],
        Missing, Corrupt}

NoEntry == [hit |-> FALSE, df |-> EmptyDataFrame, warned |-> FALSE]

\* st.button / st.number_input / st.selectbox / st.text_input of a run
Widgets(button, id, estado, evidencia) ==
  [button |-> button, id |-> id, estado |-> estado, evidencia |-> evidencia]
NoButton == Widgets("none", 0, "", "")

\* tmp = path.with_suffix(path.suffix + ".tmp")
TmpPathSame(path) == path
TmpPath(path) == path \o ".tmp"

WriterIds == {"A", "B"}
Paths == {F_NOTIF, TmpPath(F_NOTIF)}

\* No save_csv under way, no file followed step by step.
NoWriter ==
  [pc |-> "idle", fd |-> 0, off |-> 0, df |-> EmptyDataFrame, old |-> Missing, nsaves |-> 0]

FsIdle ==
  /\ fs_names = [p \in Paths |-> 0]
  /\ fs_inodes = <<>>
  /\ writers = [w \in WriterIds |-> NoWriter]

AppIdle ==
  /\ disk = [f \in Files |-> Missing]
  /\ widgets = NoButton
  /\ cache = [f \in Files |-> NoEntry]
  /\ notifs = EmptyDataFrame
  /\ rondas_run = EmptyDataFrame
  /\ incidentes = EmptyDataFrame
  /\ ptwot = EmptyDataFrame
  /\ usuarios = EmptyDataFrame
  /\ loaded = [f \in Files |-> EmptyDataFrame]
  /\ msg = "none"
  /\ warned = {}
  /\ saved = {}
  /\ session_open = FALSE
  /\ runs = 0

InitNextId ==
  /\ clock = 0
  /\ AppIdle
  /\ FsIdle
  /\ nid_file \in NidFiles
  /\ nid_called = FALSE
  /\ nid_out = 0

CallNextId ==
  /\ ~nid_called
  /\ nid_called' = TRUE
  /\ nid_out' = next_sequential_id(SafeReadCsv(nid_file).df, "id")
  /\ UNCHANGED <<clock, nid_file, appVars, fsVars>>

NextNextId == CallNextId

SpecNextId == InitNextId /\ [][NextNextId]_vars

\* ------------------------------------------------------------ a script run
\* Every run starts with seed_if_missing() and the seven load_csv calls.
RunDisk == seed_if_missing(disk, clock)
Seeded == {f \in Files : disk[f].st = "missing"}

\* st.cache_data.clear()
cache_data_keep(c) == c
cache_data_clear(c) == [f \in DOMAIN c |-> NoEntry]

\* load_csv: the cached entry if there is one, else _safe_read_csv, cached.
load_csv(D, f) ==
  IF cache[f].hit THEN cache[f]
  ELSE LET r == SafeReadCsv(D[f])
       IN  [hit |-> TRUE, df |-> r.df, warned |-> r.warned]

\* lines 135-141: the seven loads of a run, over the disk D the seeding left
CacheLoaded(D) == [f \in Files |-> load_csv(D, f)]

\* pd.concat([df, pd.DataFrame(rows)], ignore_index=True)
Concat(df, cols, rows) ==
  IF df.cols = <<>> THEN [cols |-> cols, rows |-> rows]
  ELSE [cols |-> df.cols, rows |-> df.rows \o rows]

\* df[col] == n for a number n
IdEq(c, n) == \/ c.k = "i" /\ c.n = n
              \/ c.k = "f" /\ c.s = "" /\ c.n = 2 * n

Mask(df, id_col, n) ==
  {i \in DOMAIN df.rows : HasCol(df, id_col) /\ IdEq(df.rows[i][id_col], n)}

ColValues(df, c) == IF HasCol(df, c) THEN {df.rows[i][c].s : i \in DOMAIN df.rows} ELSE {}

\* pd.concat([df, ...]) builds a new frame, out: the frame df it was given
\* stays as it was.
concat_input_extended(df, out) == out
concat_input(df, out) == df

\* df.loc[mask, col] = v writes into df itself.
loc_input(df, out) == out

InPlaceButtons == {"Aplicar cambio", "Aplicar"}

\* The frame object a handler was given, after the handler.
InputAfter(button, df, out) ==
  IF button \in InPlaceButtons THEN loc_input(df, out) ELSE concat_input(df, out)

\* What a run leaves: the frames, the disk, the cache (cleared after a write).
Finish(L, n1, r1, i1, p1, u1, d1, written, m, w) ==
  /\ notifs' = n1
  /\ loaded' = [f \in Files |->
                  InputAfter(w.button, L[f].df,
                             CASE f = F_NOTIF -> n1
                               [] f = F_RONDAS_RUN -> r1
                               [] f = F_INCIDENTES -> i1
                               [] f = F_PTWOT -> p1
                               [] f = F_USUARIOS -> u1
                               [] OTHER -> L[f].df)]
  /\ rondas_run' = r1
  /\ incidentes' = i1
  /\ ptwot' = p1
  /\ usuarios' = u1
  /\ disk' = d1
  /\ cache' = IF written = {} THEN L ELSE cache_data_clear(L)
  /\ msg' = m
  /\ warned' = {f \in Files : L[f].warned}
  /\ saved' = Seeded \cup written
  /\ session_open' = TRUE
  /\ widgets' = w
  /\ UNCHANGED <<clock, nidVars, fsVars>>

Pressed ==
  /\ session_open
  /\ runs < MaxRuns
  /\ runs' = runs + 1

\* Which pages render without raising (a frame loaded empty has no columns).
NotifPageRenders(L) ==
  HasCol(L[F_ACTIVOS].df, "tag") /\ HasCol(L[F_USUARIOS].df, "nombre")
PtwPageRenders(L) ==
  HasCol(L[F_USUARIOS].df, "nombre") /\ HasCol(L[F_ACTIVOS].df, "area")
RondasPageRenders(L) ==
  /\ ~IsEmpty(L[F_RONDAS_PLT].df)
  /\ HasCol(L[F_RONDAS_PLT].df, "plantilla")
  /\ HasCol(L[F_USUARIOS].df, "nombre")

\* A run with no button pressed (any page that renders).
ViewPage ==
  \E D \in {RunDisk} : \E L \in {CacheLoaded(D)} :
  /\ Finish(L, L[F_NOTIF].df, L[F_RONDAS_RUN].df, L[F_INCIDENTES].df, L[F_PTWOT].df,
            L[F_USUARIOS].df, D, {}, "none", NoButton)
  /\ UNCHANGED runs

\* A run of a page whose script raises while it renders: the selectboxes of
\* Notificaciones and Incidentes index activos["tag"] and usuarios["nombre"].
PageRaises ==
  \E D \in {RunDisk} : \E L \in {CacheLoaded(D)} :
    /\ ~NotifPageRenders(L)
    /\ Finish(L, L[F_NOTIF].df, L[F_RONDAS_RUN].df, L[F_INCIDENTES].df, L[F_PTWOT].df,
              L[F_USUARIOS].df, D, {}, "exception", NoButton)
    /\ UNCHANGED runs

Tick ==
  /\ clock < MaxClock
  /\ clock' = clock + 1
  /\ UNCHANGED <<appVars, nidVars, fsVars>>

\* ---------------------------------------------------- page Notificaciones
NewNotif(new_id, t, tag, titulo, motivo, prioridad, asignado, evidencia) ==
  [id |-> I(new_id), ts_creacion |-> S(now_iso(t)), tag |-> S(tag), titulo |-> S(titulo),
   motivo |-> S(motivo), prioridad |-> S(prioridad), estado |-> S("Pendiente"),
   asignado_a |-> S(asignado), ts_recibida |-> S(""), ts_cerrada |-> S(""),
   evidencia |-> S(evidencia)]

TagInputs == {"V-210"}
TituloInputs == {"Chequear V-210"}
PrioridadInputs == {"P2"}
AsignadoInputs == {"Operario 1"}
EvidenciaInputs == {"", "007"}
EstadoInputs == {"Pendiente", "Recibida", "Completada"}
SelIds(df) == 1..(Len(df.rows) + 1)

crear_notificacion(df, t, tag, titulo, motivo, prioridad, asignado) ==
  Concat(df, NotifCols,
         <<NewNotif(next_sequential_id(df, "id"), t, tag, titulo, motivo, prioridad,
                    asignado, "")>>)

CrearNotificacion ==
  /\ Pressed
  /\ \E D \in {RunDisk} : \E L \in {CacheLoaded(D)} :
      \E tag \in TagInputs \cap ColValues(L[F_ACTIVOS].df, "tag"),
         titulo \in TituloInputs, prioridad \in PrioridadInputs,
         asignado \in AsignadoInputs \cap ColValues(L[F_USUARIOS].df, "nombre") :
        LET n1 == crear_notificacion(L[F_NOTIF].df, clock, tag, titulo,
                                     "Lectura fuera de rango", prioridad, asignado)
        IN  /\ NotifPageRenders(L)
            /\ Finish(L, n1, L[F_RONDAS_RUN].df, L[F_INCIDENTES].df, L[F_PTWOT].df,
                      L[F_USUARIOS].df, save_csv(D, n1, F_NOTIF), {F_NOTIF}, "success",
                      Widgets("Crear notificacion", 0, "", ""))

\* "Aplicar cambio" that sets estado and evidencia and no timestamp
cambio_row_no_ts(r, nuevo_estado, evidencia, t) ==
  [r EXCEPT !.estado = S(nuevo_estado),
            !.evidencia = IF evidencia # "" THEN S(evidencia) ELSE @]

\* notifs.loc[mask, ...] = ... of "Aplicar cambio"
cambio_row(r, nuevo_estado, evidencia, t) ==
  [r EXCEPT !.estado = S(nuevo_estado),
            !.ts_recibida = IF nuevo_estado = "Recibida" THEN S(now_iso(t)) ELSE @,
            !.ts_cerrada = IF nuevo_estado = "Completada" THEN S(now_iso(t)) ELSE @,
            !.evidencia = IF evidencia # "" THEN S(evidencia) ELSE @]

aplicar_cambio_all(df, sel_id, nuevo_estado, evidencia, t) ==
  [df EXCEPT !.rows = [i \in DOMAIN df.rows |->
                         cambio_row(df.rows[i], nuevo_estado, evidencia, t)]]

aplicar_cambio(df, sel_id, nuevo_estado, evidencia, t) ==
  [df EXCEPT !.rows = [i \in DOMAIN df.rows |->
                         IF i \in Mask(df, "id", sel_id)
                         THEN cambio_row(df.rows[i], nuevo_estado, evidencia, t)
                         ELSE df.rows[i]]]

mask_any_true(df, id_col, n) == TRUE
mask_any(df, id_col, n) == Mask(df, id_col, n) # {}

AplicarCambio ==
  /\ Pressed
  /\ \E D \in {RunDisk} : \E L \in {CacheLoaded(D)} :
      \E sel_id \in SelIds(L[F_NOTIF].df), nuevo_estado \in EstadoInputs,
         evidencia \in EvidenciaInputs :
        LET n0 == L[F_NOTIF].df
            n1 == aplicar_cambio(n0, sel_id, nuevo_estado, evidencia, clock)
            others(n, d, w, m, b) ==
              Finish(L, n, L[F_RONDAS_RUN].df, L[F_INCIDENTES].df, L[F_PTWOT].df,
                     L[F_USUARIOS].df, d, w, m, b)
        IN  /\ NotifPageRenders(L)
            /\ ~IsEmpty(n0)
            /\ IF mask_any(n0, "id", sel_id)
               THEN others(n1, save_csv(D, n1, F_NOTIF), {F_NOTIF}, "success",
                           Widgets("Aplicar cambio", sel_id, nuevo_estado, evidencia))
               ELSE others(n0, D, {}, "not_found",
                           Widgets("Aplicar cambio", sel_id, nuevo_estado, evidencia))

\* ------------------------------------------------------ page Config & IoT
\* slider and threshold in halves of a bar: 4.5 and 10.0 against 8.0
PActualInputs == {9, 20}
PHighInputs == {16}

EvaluarEvento ==
  /\ Pressed
  /\ \E D \in {RunDisk} : \E L \in {CacheLoaded(D)} :
      \E p_actual \in PActualInputs, p_high \in PHighInputs :
        LET n0 == L[F_NOTIF].df
            row == NewNotif(next_sequential_id(n0, "id"), clock, "V-210",
                            "Alarma presion alta V-210",
                            "P=" \o FloatText(p_actual) \o " > " \o FloatText(p_high),
                            "P1", "Operario 1", "Evento IoT simulado")
            n1 == Concat(n0, NotifCols, <<row>>)
            others(n, d, w, m, b) ==
              Finish(L, n, L[F_RONDAS_RUN].df, L[F_INCIDENTES].df, L[F_PTWOT].df,
                     L[F_USUARIOS].df, d, w, m, b)
        IN  /\ IF p_actual > p_high
               THEN others(n1, save_csv(D, n1, F_NOTIF), {F_NOTIF}, "success",
                           Widgets("Evaluar evento", 0, "", ""))
               ELSE others(n0, D, {}, "info", Widgets("Evaluar evento", 0, "", ""))

\* form_user: "Agregar" with a name that is not blank appends a user.
UserCols == <<"user_id", "nombre", "rol", "area">>
NombreInputs == {"Ana", " "}
RolInputs == {"Operario", "HSE"}
Blank(nombre) == nombre \in {"", " "}

agregar_usuario(df, nombre, rol, area) ==
  Concat(df, UserCols,
         <<[user_id |-> S("u" \o ToString(Len(df.rows) + 1)), nombre |-> S(nombre),
            rol |-> S(rol), area |-> S(area)]>>)

AgregarUsuario ==
  /\ Pressed
  /\ \E D \in {RunDisk} : \E L \in {CacheLoaded(D)} :
      \E nombre \in NombreInputs, rol \in RolInputs :
        LET u0 == L[F_USUARIOS].df
            u1 == agregar_usuario(u0, nombre, rol, "Operacion Area B")
            others(u, d, w, m) ==
              Finish(L, L[F_NOTIF].df, L[F_RONDAS_RUN].df, L[F_INCIDENTES].df,
                     L[F_PTWOT].df, u, d, w, m, Widgets("Agregar", 0, "", ""))
        IN  IF Blank(nombre)
            THEN others(u0, D, {}, "none")
            ELSE others(u1, save_csv(D, u1, F_USUARIOS), {F_USUARIOS}, "success")

\* ------------------------------------------------------------ page Rondas
\* number_input "Valor": its default, the middle of the limits, or one bar
\* above the upper limit.
ValorInputs == {"mid", "high"}
Valor(r, choice) ==
  IF choice = "mid" THEN (r.lim_inf.n + r.lim_sup.n) \div 2 ELSE r.lim_sup.n + 2

Subset(plt, sel_pl) == SelectSeq(plt.rows, LAMBDA r : r.plantilla.s = sel_pl)

\* the batch without the idx offset
ronda_rows_same_id(run, sub, sel_pl, operario, choice, t) ==
  [j \in DOMAIN sub |->
     LET r == sub[j]
         valor == Valor(r, choice)
     IN  [id |-> I(next_sequential_id(run, "id")), ts |-> S(now_iso(t)),
          plantilla |-> S(sel_pl), tag |-> r.tag, variable |-> r.variable,
          valor |-> F(valor), en_rango |-> B(r.lim_inf.n <= valor /\ valor <= r.lim_sup.n),
          operario |-> S(operario)]]

\* rows.append({...}) for each row of the template, idx = 0, 1, ...
ronda_rows(run, sub, sel_pl, operario, choice, t) ==
  [j \in DOMAIN sub |->
     LET r == sub[j]
         valor == Valor(r, choice)
     IN  [id |-> I(next_sequential_id(run, "id") + (j - 1)), ts |-> S(now_iso(t)),
          plantilla |-> S(sel_pl), tag |-> r.tag, variable |-> r.variable,
          valor |-> F(valor), en_rango |-> B(r.lim_inf.n <= valor /\ valor <= r.lim_sup.n),
          operario |-> S(operario)]]

GuardarRonda ==
  /\ Pressed
  /\ \E D \in {RunDisk} : \E L \in {CacheLoaded(D)} :
      \E sel_pl \in ColValues(L[F_RONDAS_PLT].df, "plantilla"), choice \in ValorInputs,
         operario \in AsignadoInputs \cap ColValues(L[F_USUARIOS].df, "nombre") :
        LET r0 == L[F_RONDAS_RUN].df
            rows == ronda_rows(r0, Subset(L[F_RONDAS_PLT].df, sel_pl), sel_pl, operario,
                               choice, clock)
            r1 == Concat(r0, RunCols, rows)
        IN  /\ RondasPageRenders(L)
            /\ rows # <<>>
            /\ Finish(L, L[F_NOTIF].df, r1, L[F_INCIDENTES].df, L[F_PTWOT].df,
                      L[F_USUARIOS].df, save_csv(D, r1, F_RONDAS_RUN), {F_RONDAS_RUN},
                      "success", Widgets("Guardar ronda", 0, "", ""))

\* ---------------------------------------------------------- page PTW / OT
TipoInputs == {"Espacio confinado"}
PtwEstadoInputs == {"Borrador", "Aprobado", "Cerrado"}
AprobInputs == {"No", "Si"}

crear_ptw(df, t, tipo, solicitante, area) ==
  Concat(df, PtwCols,
         <<[id |-> I(next_sequential_id(df, "id")), ts_solicitud |-> S(now_iso(t)),
            tipo |-> S(tipo), solicitante |-> S(solicitante), area |-> S(area),
            estado |-> S("Borrador"), aprob_hse |-> S("No"), ts_cierre |-> S(""),
            adjuntos |-> S("")]>>)

CrearPTW ==
  /\ Pressed
  /\ \E D \in {RunDisk} : \E L \in {CacheLoaded(D)} :
      \E tipo \in TipoInputs,
         solicitante \in AsignadoInputs \cap ColValues(L[F_USUARIOS].df, "nombre"),
         area \in {"Area B"} \cap ColValues(L[F_ACTIVOS].df, "area") :
        LET p1 == crear_ptw(L[F_PTWOT].df, clock, tipo, solicitante, area)
        IN  /\ PtwPageRenders(L)
            /\ Finish(L, L[F_NOTIF].df, L[F_RONDAS_RUN].df, L[F_INCIDENTES].df, p1,
                      L[F_USUARIOS].df, save_csv(D, p1, F_PTWOT), {F_PTWOT}, "success",
                      Widgets("Crear PTW", 0, "", ""))

ptw_row(r, nuevo, aprob_hse, t) ==
  [r EXCEPT !.estado = S(nuevo),
            !.aprob_hse = S(aprob_hse),
            !.ts_cierre = IF nuevo = "Cerrado" THEN S(now_iso(t)) ELSE @]

aplicar_ptw(df, idp, nuevo, aprob_hse, t) ==
  [df EXCEPT !.rows = [i \in DOMAIN df.rows |->
                         IF i \in Mask(df, "id", idp)
                         THEN ptw_row(df.rows[i], nuevo, aprob_hse, t)
                         ELSE df.rows[i]]]

AplicarPTW ==
  /\ Pressed
  /\ \E D \in {RunDisk} : \E L \in {CacheLoaded(D)} :
      \E idp \in SelIds(L[F_PTWOT].df), nuevo \in PtwEstadoInputs, aprob_hse \in AprobInputs :
        LET p0 == L[F_PTWOT].df
            p1 == aplicar_ptw(p0, idp, nuevo, aprob_hse, clock)
            others(p, d, w, m, b) ==
              Finish(L, L[F_NOTIF].df, L[F_RONDAS_RUN].df, L[F_INCIDENTES].df, p,
                     L[F_USUARIOS].df, d, w, m, b)
        IN  /\ PtwPageRenders(L)
            /\ ~IsEmpty(p0)
            /\ IF mask_any(p0, "id", idp)
               THEN others(p1, save_csv(D, p1, F_PTWOT), {F_PTWOT}, "success",
                           Widgets("Aplicar", idp, nuevo, ""))
               ELSE others(p0, D, {}, "not_found", Widgets("Aplicar", idp, nuevo, ""))

\* -------------------------------------------------------- page Incidentes
reportar_incidente(df, t, tag, titulo, severidad, descripcion, reportado_por) ==
  Concat(df, IncCols,
         <<[id |-> I(next_sequential_id(df, "id")), ts |-> S(now_iso(t)), tag |-> S(tag),
            titulo |-> S(titulo), severidad |-> S(severidad),
            descripcion |-> S(descripcion), reportado_por |-> S(reportado_por),
            estado |-> S("Abierto")]>>)

ReportarIncidente ==
  /\ Pressed
  /\ \E D \in {RunDisk} : \E L \in {CacheLoaded(D)} :
      \E tag \in TagInputs \cap ColValues(L[F_ACTIVOS].df, "tag"),
         reportado_por \in AsignadoInputs \cap ColValues(L[F_USUARIOS].df, "nombre") :
        LET i1 == reportar_incidente(L[F_INCIDENTES].df, clock, tag, "Near Miss", "Medio",
                                     "Descripcion breve del hecho.", reportado_por)
        IN  /\ NotifPageRenders(L)
            /\ Finish(L, L[F_NOTIF].df, L[F_RONDAS_RUN].df, i1, L[F_PTWOT].df,
                      L[F_USUARIOS].df, save_csv(D, i1, F_INCIDENTES), {F_INCIDENTES},
                      "success", Widgets("Reportar incidente", 0, "", ""))

\* ------------------------------------------------- save_csv, step by step
\* The bytes of a CSV file as its lines, the header first.
Line(kind, cells) == [kind |-> kind, cells |-> cells]
Hole == Line("hole", <<>>)
Lines(csv) ==
  <<Line("header", csv.cols)>>
  \o [i \in DOMAIN csv.rows |->
        Line("row", [j \in DOMAIN csv.cols |-> csv.rows[i][csv.cols[j]]])]

\* pd.read_csv of those bytes: no bytes, or bytes that are not a header
\* followed by rows, do not parse.
ParseLines(lines) ==
  IF /\ lines # <<>>
     /\ lines[1].kind = "header"
     /\ \A i \in 2..Len(lines) :
          lines[i].kind = "row" /\ Len(lines[i].cells) = Len(lines[1].cells)
  THEN [st |-> "ok",
        cols |-> lines[1].cells,
        rows |-> [i \in 1..(Len(lines) - 1) |->
                    [c \in Range(lines[1].cells) |->
                       lines[i + 1].cells[CHOOSE j \in DOMAIN lines[1].cells :
                                            lines[1].cells[j] = c]]]]
  ELSE Corrupt

\* What a reader of path finds.
FileAt(path) == IF fs_names[path] = 0 THEN Missing ELSE ParseLines(fs_inodes[fs_names[path]])

\* The frames a handler of page Notificaciones may hand to save_csv.
Candidates(df, t) ==
  {crear_notificacion(df, t, "V-210", "Chequear V-210", "Lectura fuera de rango", "P2",
                      "Operario 1"),
   aplicar_cambio(df, 1, "Recibida", "", t),
   aplicar_cambio(df, 2, "Completada", "007", t)}

\* A handler has built its frame from the file as it is and calls save_csv.
BeginSave(w) ==
  /\ writers[w].pc = "idle"
  /\ writers[w].nsaves < MaxSaves
  /\ FileAt(F_NOTIF).st = "ok"
  /\ \E df \in Candidates(ReadCsv(FileAt(F_NOTIF)), clock) :
       writers' = [writers EXCEPT ![w] = [pc |-> "begin", fd |-> 0, off |-> 0, df |-> df,
                                          old |-> FileAt(F_NOTIF), nsaves |-> @.nsaves + 1]]
  /\ UNCHANGED <<fs_names, fs_inodes, clock, appVars, nidVars>>

\* df.to_csv(tmp): open(tmp, "w") creates the file or truncates the one there.
OpenTmp(w) ==
  LET tmp == TmpPath(F_NOTIF)
      ino == IF fs_names[tmp] = 0 THEN Len(fs_inodes) + 1 ELSE fs_names[tmp]
  IN  /\ writers[w].pc = "begin"
      /\ fs_names' = [fs_names EXCEPT ![tmp] = ino]
      /\ fs_inodes' = IF fs_names[tmp] = 0 THEN Append(fs_inodes, <<>>)
                      ELSE [fs_inodes EXCEPT ![ino] = <<>>]
      /\ writers' = [writers EXCEPT ![w].pc = "writing", ![w].fd = ino, ![w].off = 0]
      /\ UNCHANGED <<clock, appVars, nidVars>>

\* write(fd, line) at the handle's own offset; a gap past the end reads as zeros.
WriteAt(content, k, line) ==
  IF k <= Len(content) THEN [content EXCEPT ![k] = line]
  ELSE content \o [i \in 1..(k - Len(content) - 1) |-> Hole] \o <<line>>

WriteLine(w) ==
  LET me == writers[w]
      out == Lines(ToCsv(me.df))
  IN  /\ me.pc = "writing"
      /\ me.off < Len(out)
      /\ fs_inodes' = [fs_inodes EXCEPT ![me.fd] = WriteAt(@, me.off + 1, out[me.off + 1])]
      /\ writers' = [writers EXCEPT ![w].off = @ + 1]
      /\ UNCHANGED <<fs_names, clock, appVars, nidVars>>

CloseTmp(w) ==
  /\ writers[w].pc = "writing"
  /\ writers[w].off = Len(Lines(ToCsv(writers[w].df)))
  /\ writers' = [writers EXCEPT ![w].pc = "closed"]
  /\ UNCHANGED <<fs_names, fs_inodes, clock, appVars, nidVars>>

\* tmp.replace(path): os.replace, one rename; FileNotFoundError without tmp.
Replace(w) ==
  LET tmp == TmpPath(F_NOTIF)
  IN  /\ writers[w].pc = "closed"
      /\ IF fs_names[tmp] = 0
         THEN /\ writers' = [writers EXCEPT ![w].pc = "raised"]
              /\ UNCHANGED fs_names
         ELSE /\ writers' = [writers EXCEPT ![w].pc = "done"]
              /\ fs_names' = IF tmp = F_NOTIF THEN fs_names
                             ELSE [fs_names EXCEPT ![F_NOTIF] = fs_names[tmp], ![tmp] = 0]
      /\ UNCHANGED <<fs_inodes, clock, appVars, nidVars>>

\* The save is interrupted: the process is killed, or a write raises.
Interrupt(w) ==
  /\ writers[w].pc \in {"begin", "writing", "closed"}
  /\ writers' = [writers EXCEPT ![w].pc = "interrupted"]
  /\ UNCHANGED <<fs_names, fs_inodes, clock, appVars, nidVars>>

\* The session (or a new process) goes on after a save that ended.
Resume(w) ==
  /\ writers[w].pc \in {"done", "interrupted"}
  /\ writers[w].nsaves < MaxSaves
  /\ writers' = [writers EXCEPT ![w].pc = "idle"]
  /\ UNCHANGED <<fs_names, fs_inodes, clock, appVars, nidVars>>

\* ------------------------------------------------------- the application
Idle ==
  /\ clock = 0
  /\ cache = [f \in Files |-> NoEntry]
  /\ notifs = EmptyDataFrame
  /\ rondas_run = EmptyDataFrame
  /\ incidentes = EmptyDataFrame
  /\ ptwot = EmptyDataFrame
  /\ usuarios = EmptyDataFrame
  /\ loaded = [f \in Files |-> EmptyDataFrame]
  /\ msg = "none"
  /\ warned = {}
  /\ saved = {}
  /\ session_open = FALSE
  /\ widgets = NoButton
  /\ runs = 0
  /\ nid_file = Missing
  /\ nid_called = FALSE
  /\ nid_out = 0
  /\ FsIdle

\* data/ as the first run finds it: empty, or with the file of one writable
\* dataset damaged (unparseable: zero bytes, bad encoding, ragged rows).
Init ==
  /\ Idle
  /\ disk \in [Files -> {Missing, Corrupt}]
  /\ \A f \in {F_USUARIOS, F_ACTIVOS, F_RONDAS_PLT} : disk[f] = Missing
  /\ Cardinality({f \in Files : disk[f] = Corrupt}) <= 1

\* A session on the pages that write notifications: Notificaciones, Config & IoT.
Next ==
  \/ ViewPage
  \/ Tick
  \/ CrearNotificacion
  \/ AplicarCambio
  \/ EvaluarEvento

Spec == Init /\ [][Next]_vars

\* A session that only creates records, in the four collections that carry ids.
NextIds ==
  \/ ViewPage
  \/ Tick
  \/ CrearNotificacion
  \/ EvaluarEvento
  \/ GuardarRonda
  \/ CrearPTW
  \/ ReportarIncidente

SpecIds == Init /\ [][NextIds]_vars

\* A session on the two pages that change a status: Notificaciones, PTW / OT.
NextEstados ==
  \/ ViewPage
  \/ Tick
  \/ CrearNotificacion
  \/ AplicarCambio
  \/ CrearPTW
  \/ AplicarPTW

SpecEstados == Init /\ [][NextEstados]_vars

\* Start-up over any data/: each of the seven files absent or damaged.
InitSeed ==
  /\ Idle
  /\ disk \in [Files -> {Missing, Corrupt}]

NextSeed ==
  \/ ViewPage
  \/ PageRaises
  \/ Tick
  \/ EvaluarEvento
  \/ ReportarIncidente

SpecSeed == InitSeed /\ [][NextSeed]_vars

\* A session over every handler that appends rows to a collection.
NextAppend ==
  \/ ViewPage
  \/ CrearNotificacion
  \/ EvaluarEvento
  \/ GuardarRonda
  \/ CrearPTW
  \/ ReportarIncidente
  \/ AgregarUsuario

SpecAppend == Init /\ [][NextAppend]_vars

\* One session saving the notifications, again and again, with interruptions.
InitSave ==
  /\ clock = 0
  /\ AppIdle
  /\ nid_file = Missing
  /\ nid_called = FALSE
  /\ nid_out = 0
  /\ fs_names = [p \in Paths |-> IF p = F_NOTIF THEN 1 ELSE 0]
  /\ fs_inodes = <<Lines(ToCsv(SeedNotif(0)))>>
  /\ writers = [w \in WriterIds |-> NoWriter]

NextSave ==
  \/ BeginSave("A")
  \/ OpenTmp("A")
  \/ WriteLine("A")
  \/ CloseTmp("A")
  \/ Replace("A")
  \/ Interrupt("A")
  \/ Resume("A")
  \/ Tick

SpecSave == InitSave /\ [][NextSave]_vars

\* Two sessions that loaded the seeded notifications and both call save_csv.
InitRace ==
  /\ clock = 0
  /\ AppIdle
  /\ nid_file = Missing
  /\ nid_called = FALSE
  /\ nid_out = 0
  /\ fs_names = [p \in Paths |-> IF p = F_NOTIF THEN 1 ELSE 0]
  /\ fs_inodes = <<Lines(ToCsv(SeedNotif(0)))>>
  /\ \E dfA, dfB \in Candidates(SeedNotif(0), 1) :
       /\ dfA # dfB
       /\ writers = [w \in WriterIds |->
                       [pc |-> "begin", fd |-> 0, off |-> 0,
                        df |-> IF w = "A" THEN dfA ELSE dfB,
                        old |-> ToCsv(SeedNotif(0)), nsaves |-> 1]]

NextRace ==
  \E w \in WriterIds :
    \/ OpenTmp(w)
    \/ WriteLine(w)
    \/ CloseTmp(w)
    \/ Replace(w)

SpecRace == InitRace /\ [][NextRace]_vars

\* ===================================================================
\* Properties
\* ===================================================================
\* A step that is a run of the script (the only other step is the clock's).
IsRun == clock' = clock
\* A step that is the run after a click on a button.
IsPress == runs' = runs + 1

\* What a run that starts in the current state loads for file f.
Pre(f) == CacheLoaded(RunDisk)[f].df

\* The id column of a file as the integers its texts spell (no file: none).
IdsOf(file) ==
  IF file.st = "ok" /\ "id" \in Range(file.cols)
  THEN [i \in DOMAIN file.rows |-> TextToInt(file.rows[i].id)]
  ELSE <<>>

MaxOf(ids) == IF ids = <<>> THEN 0 ELSE CHOOSE m \in Range(ids) : \A x \in Range(ids) : x <= m

IdFiles == {F_NOTIF, F_RONDAS_RUN, F_INCIDENTES, F_PTWOT}

\* The script's frame of a file the pages write.
WritableFrame(f) ==
  CASE f = F_NOTIF -> notifs
    [] f = F_RONDAS_RUN -> rondas_run
    [] f = F_INCIDENTES -> incidentes
    [] f = F_PTWOT -> ptwot
    [] OTHER -> usuarios

\* ----------------------------------------------------------------- C1
\* C1: while a save of a file that held valid content has not reached its
\* replace, or was interrupted, the final path reads as the complete old
\* content; once the replace is done it reads as the complete new content;
\* at no point is it missing, truncated or mixed.
C1_AtomicSave ==
  LET me == writers["A"]
      seen == FileAt(F_NOTIF)
  IN  /\ seen.st = "ok"
      /\ me.pc \in {"begin", "writing", "closed", "interrupted"} => seen = me.old
      /\ me.pc = "done" => seen = ToCsv(me.df)
      /\ me.pc # "idle" => seen \in {me.old, ToCsv(me.df)}
      /\ me.pc # "raised"

\* a second save was interrupted in the middle of its temporary write, over
\* what the first save had put in place
C1_Witness ==
  LET me == writers["A"]
  IN  /\ me.pc = "interrupted"
      /\ me.nsaves = 2
      /\ me.off > 0
      /\ me.off < Len(Lines(ToCsv(me.df)))
      /\ FileAt(TmpPath(F_NOTIF)) # ToCsv(me.df)
      /\ FileAt(F_NOTIF) = me.old
      /\ me.old # ToCsv(SeedNotif(0))

\* ----------------------------------------------------------------- C2
\* The texts of the id column that spell a number, in halves.
NidNumbers ==
  IF nid_file.st = "ok" /\ "id" \in Range(nid_file.cols)
  THEN {HalvesTable[nid_file.rows[i].id] :
          i \in {j \in DOMAIN nid_file.rows : nid_file.rows[j].id \in NumTexts}}
  ELSE {}
NidHasInf ==
  /\ nid_file.st = "ok"
  /\ "id" \in Range(nid_file.cols)
  /\ \E i \in DOMAIN nid_file.rows : nid_file.rows[i].id \in InfTexts

Distinct(ids) == \A i, j \in DOMAIN ids : i # j => ids[i] # ids[j]

\* C3: in each of the four collections with ids, every step keeps the rows
\* already persisted, and the rows it adds get the ids max+1, max+2, ... in
\* order (1, 2, ... when there was no row): each new id is greater than
\* every id already present, a batch of k rows gets k consecutive ids, and
\* the ids of the persisted collection are pairwise distinct.
C3_IdsStep ==
  \A f \in IdFiles :
    LET old == IdsOf(disk[f])
        new == IdsOf(disk'[f])
    IN  /\ Len(new) >= Len(old)
        /\ \A i \in DOMAIN old : new[i] = old[i]
        /\ \A j \in (Len(old) + 1)..Len(new) : new[j] = MaxOf(old) + (j - Len(old))
        /\ Distinct(new)

C3_UniqueMonotonicIds == [][C3_IdsStep]_vars

\* two round submissions of two template rows each: ids 1, 2 then 3, 4
C3_Witness ==
  /\ IdsOf(disk[F_RONDAS_RUN]) = <<1, 2, 3, 4>>
  /\ widgets.button = "Guardar ronda"

\* ----------------------------------------------------------------- C4
Changed(before, after) == {c \in DOMAIN before : before[c] # after[c]}

\* C4: a status change of a notification id that exists, with no evidence
\* text, sets estado of the matching row to the new status, ts_recibida to
\* the time of the change when the new status is Recibida, ts_cerrada when
\* it is Completada, and changes no other field of that row and no other row.
C4_TransitionStep ==
  (/\ IsPress
   /\ widgets'.button = "Aplicar cambio"
   /\ msg' = "success"
   /\ widgets'.evidencia = "") =>
    LET before == Pre(F_NOTIF)
        nuevo == widgets'.estado
    IN  /\ notifs'.cols = before.cols
        /\ DOMAIN notifs'.rows = DOMAIN before.rows
        /\ \E i \in DOMAIN before.rows : before.rows[i].id = I(widgets'.id)
        /\ \A i \in DOMAIN before.rows :
             LET r == before.rows[i]
                 q == notifs'.rows[i]
             IN  IF r.id = I(widgets'.id)
                 THEN /\ q.estado = S(nuevo)
                      /\ nuevo = "Recibida" => q.ts_recibida = S(now_iso(clock))
                      /\ nuevo = "Completada" => q.ts_cerrada = S(now_iso(clock))
                      /\ Changed(r, q) \subseteq
                           {"estado"}
                           \cup (IF nuevo = "Recibida" THEN {"ts_recibida"} ELSE {})
                           \cup (IF nuevo = "Completada" THEN {"ts_cerrada"} ELSE {})
                 ELSE q = r

C4_TransitionFrame == [][C4_TransitionStep]_vars

\* id 2, Pendiente, moved to Recibida
C4_Witness ==
  /\ widgets = Widgets("Aplicar cambio", 2, "Recibida", "")
  /\ msg = "success"
  /\ Len(notifs.rows) >= 2
  /\ notifs.rows[2].estado = S("Recibida")
  /\ notifs.rows[2].ts_recibida # S("")
  /\ notifs.rows[1].estado = S("Pendiente")

\* ----------------------------------------------------------------- C5
TransitionFile(button) == IF button = "Aplicar cambio" THEN F_NOTIF ELSE F_PTWOT

\* C5: a status change (notification or permit) of an id that is not in the
\* collection reports not-found and changes nothing: the frame is the one
\* loaded, the disk is as before, nothing is saved.
C5_NotFoundStep ==
  \A f \in {F_NOTIF, F_PTWOT} :
    (/\ IsPress
     /\ widgets'.button \in {"Aplicar cambio", "Aplicar"}
     /\ f = TransitionFile(widgets'.button)
     /\ \A i \in DOMAIN IdsOf(disk[f]) : IdsOf(disk[f])[i] # widgets'.id) =>
      /\ msg' = "not_found"
      /\ disk' = disk
      /\ saved' = {}
      /\ WritableFrame(f)' = Pre(f)
      /\ WritableFrame(f)' = SafeReadCsv(disk'[f]).df

C5_NotFoundChangesNothing == [][C5_NotFoundStep]_vars

C5_Witness ==
  /\ widgets.button = "Aplicar"
  /\ msg = "not_found"
  /\ widgets.id = 3
  /\ Len(ptwot.rows) = 2

\* ----------------------------------------------------------------- C6
\* C6: the cache never holds, for a dataset, a frame other than the one its
\* file reads as: after a save every load returns what the save wrote.
C6_CacheFresh ==
  \A f \in Files : cache[f].hit => cache[f].df = SafeReadCsv(disk[f]).df

\* a notification was saved and the run after it loaded the three rows
C6_Witness ==
  /\ cache[F_NOTIF].hit
  /\ runs >= 1
  /\ Len(cache[F_NOTIF].df.rows) = 3
  /\ widgets = NoButton

\* ----------------------------------------------------------------- C7
\* C7: seed_if_missing leaves every file that exists as it is, damaged or
\* not, and after it has run a second call changes no file, at any time.
C7_SeedIdempotent ==
  /\ \A f \in Files, t \in 0..MaxClock :
       disk[f].st # "missing" => seed_if_missing(disk, t)[f] = disk[f]
  /\ \A t \in 0..MaxClock :
       seed_if_missing(seed_if_missing(disk, clock), t) = seed_if_missing(disk, clock)
  /\ session_open => seed_if_missing(disk, clock) = disk

\* a damaged file is still there after two runs, beside a file written since
C7_Witness ==
  /\ session_open
  /\ disk[F_PTWOT] = Corrupt
  /\ disk[F_USUARIOS].st = "ok"
  /\ Len(IdsOf(disk[F_NOTIF])) = 3
  /\ clock = 1

\* ----------------------------------------------------------------- C8
\* C8: a run over a damaged file loads an empty frame, warns and does not
\* raise; the save that follows on that dataset succeeds and leaves a file
\* that parses, without a warning, to the rows and ids of the saved frame,
\* its text being that of the frame saved.
C8_RecoveryStep ==
  \A f \in IdFiles :
    (IsRun /\ disk[f] = Corrupt) =>
      /\ Pre(f) = EmptyDataFrame
      /\ f \in warned'
      /\ msg' # "exception"
      /\ f \notin saved' => disk'[f] = Corrupt /\ WritableFrame(f)' = EmptyDataFrame
      /\ f \in saved' =>
           /\ msg' = "success"
           /\ disk'[f].st = "ok"
           /\ disk'[f] = ToCsv(WritableFrame(f)')
           /\ ~SafeReadCsv(disk'[f]).warned
           /\ Len(SafeReadCsv(disk'[f]).df.rows) = Len(WritableFrame(f)'.rows)
           /\ Len(WritableFrame(f)'.rows) >= 1
           /\ \A i \in DOMAIN WritableFrame(f)'.rows :
                SafeReadCsv(disk'[f]).df.rows[i].id = WritableFrame(f)'.rows[i].id

C8_CorruptRecovery == [][C8_RecoveryStep]_vars

\* the notifications file was damaged; the create after it left one row, id 1
C8_Witness ==
  /\ IdsOf(disk[F_NOTIF]) = <<1>>
  /\ msg = "success"
  /\ widgets.button = "Crear notificacion"
  /\ warned = {F_NOTIF}

\* ----------------------------------------------------------------- C9
NotifButtons == {"Crear notificacion", "Evaluar evento", "Aplicar cambio"}

\* C9: from an empty data/ the first run seeds the notifications 1 and 2; a
\* create then assigns id 3; after id 3 is moved to Completada the file
\* reads back with estado Completada and a ts_cerrada for it; and after
\* every successful create or transition the collection read back from the
\* disk equals the frame of the session.
C9_DurabilityStep ==
  IsRun =>
    /\ disk[F_NOTIF] = Missing => IdsOf(disk'[F_NOTIF]) = <<1, 2>>
    /\ (IdsOf(disk[F_NOTIF]) = <<1, 2>> /\ widgets'.button = "Crear notificacion") =>
         IdsOf(disk'[F_NOTIF]) = <<1, 2, 3>>
    /\ (/\ IdsOf(disk[F_NOTIF]) = <<1, 2, 3>>
        /\ widgets'.button = "Aplicar cambio"
        /\ widgets'.id = 3
        /\ widgets'.estado = "Completada") =>
         LET back == SafeReadCsv(disk'[F_NOTIF]).df
         IN  /\ back.rows[3].estado = S("Completada")
             /\ back.rows[3].ts_cerrada # S("")
    /\ (widgets'.button \in NotifButtons /\ msg' = "success") =>
         SafeReadCsv(disk'[F_NOTIF]).df = notifs'

C9_Durability == [][C9_DurabilityStep]_vars

\* ---------------------------------------------------------------- C10
\* C10: with two writers interleaved, neither save raises, and the final
\* path always reads as the complete old collection or the complete
\* collection of one of the two writers.
C10_RaceSafe ==
  /\ \A w \in WriterIds : writers[w].pc # "raised"
  /\ FileAt(F_NOTIF) \in {ToCsv(SeedNotif(0))} \cup {ToCsv(writers[w].df) : w \in WriterIds}

\* ---------------------------------------------------------------- C11
CreateButtons ==
  {"Crear notificacion", "Evaluar evento", "Guardar ronda", "Crear PTW",
   "Reportar incidente", "Agregar"}

CreateFile(button) ==
  CASE button \in {"Crear notificacion", "Evaluar evento"} -> F_NOTIF
    [] button = "Guardar ronda" -> F_RONDAS_RUN
    [] button = "Crear PTW" -> F_PTWOT
    [] button = "Reportar incidente" -> F_INCIDENTES
    [] OTHER -> F_USUARIOS

AppendFiles == {F_NOTIF, F_RONDAS_RUN, F_PTWOT, F_INCIDENTES, F_USUARIOS}

\* C11: every create (notification, IoT notification, incident, permit,
\* user, round batch) turns the collection of N rows it was given into one
\* of N + 1 rows (N + k for a round of k template rows) whose first N rows
\* are the rows given, in their order, the new rows being last; and the
\* collection it was given is, after the create, what it was before.
C11_AppendStep ==
  \A f \in AppendFiles :
    (/\ IsPress
     /\ msg' = "success"
     /\ widgets'.button \in CreateButtons
     /\ f = CreateFile(widgets'.button)) =>
      LET before == Pre(f)
          after == WritableFrame(f)'
          N == Len(before.rows)
          k == IF widgets'.button = "Guardar ronda"
               THEN Len(Subset(Pre(F_RONDAS_PLT), after.rows[Len(after.rows)].plantilla.s))
               ELSE 1
      IN  /\ k >= 1
          /\ Len(after.rows) = N + k
          /\ SubSeq(after.rows, 1, N) = before.rows
          /\ N > 0 => after.cols = before.cols
          /\ \A j \in (N + 1)..(N + k) : DOMAIN after.rows[j] = Range(after.cols)
          /\ loaded'[f] = before
          /\ disk'[f] = ToCsv(after)

C11_AppendKeepsRows == [][C11_AppendStep]_vars

\* a second round of two readings, appended to the two rows of the first
C11_Witness ==
  /\ widgets.button = "Guardar ronda"
  /\ msg = "success"
  /\ Len(rondas_run.rows) = 4
  /\ Len(loaded[F_RONDAS_RUN].rows) = 2
  /\ SubSeq(rondas_run.rows, 1, 2) = loaded[F_RONDAS_RUN].rows

\* ---------------------------------------------------------------- C12
\* Every row that is Recibida has a ts_recibida, every row that is
\* Completada has a ts_cerrada.
Lifecycle(df) ==
  \A i \in DOMAIN df.rows :
    LET r == df.rows[i]
    IN  /\ CellText(r.estado) = "Recibida" => CellText(r.ts_recibida) # ""
        /\ CellText(r.estado) = "Completada" => CellText(r.ts_cerrada) # ""

\* The same of the file's rows, as written.
LifecycleFile(file) ==
  file.st = "ok" =>
    \A i \in DOMAIN file.rows :
      /\ file.rows[i].estado = "Recibida" => file.rows[i].ts_recibida # ""
      /\ file.rows[i].estado = "Completada" => file.rows[i].ts_cerrada # ""

\* No timestamp of a row is emptied from one frame to the next.
NeverCleared(before, after) ==
  \A i \in DOMAIN before.rows :
    /\ i \in DOMAIN after.rows
    /\ CellText(before.rows[i].ts_recibida) # "" => CellText(after.rows[i].ts_recibida) # ""
    /\ CellText(before.rows[i].ts_cerrada) # "" => CellText(after.rows[i].ts_cerrada) # ""

NeverClearedFile(before, after) ==
  before.st = "ok" =>
    /\ after.st = "ok"
    /\ \A i \in DOMAIN before.rows :
         /\ i \in DOMAIN after.rows
         /\ before.rows[i].ts_recibida # "" => after.rows[i].ts_recibida # ""
         /\ before.rows[i].ts_cerrada # "" => after.rows[i].ts_cerrada # ""

\* C12: whatever the creates and the status changes (between any two
\* statuses, back to Pendiente included), in the session's notifications and
\* in the file, every notification that is Recibida has a ts_recibida and
\* every one that is Completada has a ts_cerrada; and a timestamp that is
\* set is never emptied again.
C12_LifecycleStep ==
  /\ Lifecycle(notifs)
  /\ Lifecycle(notifs')
  /\ LifecycleFile(disk'[F_NOTIF])
  /\ NeverCleared(notifs, notifs')
  /\ NeverClearedFile(disk[F_NOTIF], disk'[F_NOTIF])

C12_Lifecycle == [][C12_LifecycleStep]_vars

\* the converse fails: a notification moved to Recibida and back to
\* Pendiente keeps its ts_recibida
C12_Witness ==
  /\ widgets.button = "Aplicar cambio"
  /\ widgets.estado = "Pendiente"
  /\ msg = "success"
  /\ \E i \in DOMAIN notifs.rows :
       /\ notifs.rows[i].id = I(widgets.id)
       /\ CellText(notifs.rows[i].estado) = "Pendiente"
       /\ CellText(notifs.rows[i].ts_recibida) # ""
  /\ Lifecycle(notifs)

====
